---- MODULE Spec2Model ----
(***************************************************************************)
(* Model of the Only-Agent chat view provider (src/src/extension.ts):      *)
(* the parser of TOOL_CALL blocks, the pending action store, the           *)
(* executor of one action and the bulk approval.                           *)
(*                                                                         *)
(* Text is a sequence of one-character strings.  A response is a sequence  *)
(* of blocks as the action regex cuts it; a block body is a sequence of    *)
(* label and fence tokens.  Every message handler is an async function:    *)
(* it runs up to its first awaited collaborator call, and its              *)
(* continuation runs when that call settles; microtask continuations of    *)
(* calls that never leave the extension host run in the same step.         *)
(***************************************************************************)
EXTENDS Integers, Sequences, FiniteSets, TLC

\* ---------------------------------------------------------------- bounds
\* the messages and commands handled in one run
MaxRequests == 3

\* ------------------------------------------------------------- constants
\* every approval request is one handler invocation
TaskIds == 1..MaxRequests

\* a field the parser did not capture (JavaScript undefined)
NoField == "undefined"
NoBlock == <<"undefined">>
\* a path at which no file exists
NoFile == <<"nofile">>

KnownTypes == {"MODIFY", "CREATE", "DELETE", "SHELL", "FETCH"}

\* ------------------------------------------------------- text primitives
IsSpace(c) == c \in {" ", "\n", "\r", "\t"}

\* String.prototype.trim
RECURSIVE TrimLeft(_)
TrimLeft(s) ==
    IF s # <<>> /\ IsSpace(Head(s)) THEN TrimLeft(Tail(s)) ELSE s

RECURSIVE TrimRight(_)
TrimRight(s) ==
    IF s # <<>> /\ IsSpace(s[Len(s)]) THEN TrimRight(SubSeq(s, 1, Len(s) - 1)) ELSE s

Trim(s) == TrimRight(TrimLeft(s))

\* text of s from 0-based offset a (inclusive) to b (exclusive)
Slice(s, a, b) == SubSeq(s, a + 1, b)

\* String.prototype.indexOf: lowest 0-based offset of sub in s, or -1
IndexOf(s, sub) ==
    LET hits == {k \in 0..(Len(s) - Len(sub)) : Slice(s, k, k + Len(sub)) = sub}
    IN IF hits = {} THEN -1 ELSE CHOOSE k \in hits : \A h \in hits : k <= h

\* String.prototype.split(/\r?\n/): the lines of s, without their terminators
RECURSIVE SplitFrom(_, _, _)
SplitFrom(s, k, cur) ==
    IF k > Len(s) THEN <<cur>>
    ELSE IF s[k] = "\n" THEN <<cur>> \o SplitFrom(s, k + 1, <<>>)
    ELSE IF s[k] = "\r" /\ k < Len(s) /\ s[k + 1] = "\n"
         THEN <<cur>> \o SplitFrom(s, k + 2, <<>>)
    ELSE SplitFrom(s, k + 1, Append(cur, s[k]))

SplitLines(s) == SplitFrom(s, 1, <<>>)

\* TextDocument lines: start offset and end offset (before the terminator)
\* of 0-based line n of the document text
RECURSIVE LineStarts(_, _)
LineStarts(s, k) ==
    IF k > Len(s) THEN <<>>
    ELSE IF s[k] = "\n" THEN <<k>> \o LineStarts(s, k + 1)
    ELSE LineStarts(s, k + 1)

\* 0-based offset of the first character of 0-based line n
LineStart(s, n) == IF n = 0 THEN 0 ELSE LineStarts(s, 1)[n]

\* doc.lineAt(n).range.end as a 0-based offset
LineEndBad(s, n) == LineStart(s, n) + Len(Trim(SplitLines(s)[n + 1]))
LineEnd(s, n) == LineStart(s, n) + Len(SplitLines(s)[n + 1])

\* ------------------------------------------------------------ PatchMatcher
\* what String.prototype.indexOf searches for: an undefined argument is
\* converted to the text "undefined"
SearchText(before) ==
    IF before = NoBlock THEN <<"u", "n", "d", "e", "f", "i", "n", "e", "d">> ELSE before

\* startSearch of the fuzzy stage: 1-based index of the first line of
\* searchLines that is not blank, Len + 1 if every line is blank
RECURSIVE StartSearch(_, _)
StartSearch(searchLines, k) ==
    IF k <= Len(searchLines) /\ Trim(searchLines[k]) = <<>>
    THEN StartSearch(searchLines, k + 1) ELSE k

\* endSearch of the fuzzy stage: 1-based index of the last line that is not
\* blank, never moved below startSearch - 1
RECURSIVE EndSearch(_, _, _)
EndSearch(searchLines, startSearch, k) ==
    IF k >= startSearch /\ Trim(searchLines[k]) = <<>>
    THEN EndSearch(searchLines, startSearch, k - 1) ELSE k

EffectiveSearchLines(before) ==
    LET searchLines == SplitLines(before)
        startSearch == StartSearch(searchLines, 1)
        endSearch == EndSearch(searchLines, startSearch, Len(searchLines))
    IN SubSeq(searchLines, startSearch, endSearch)

\* the inner loop of the fuzzy stage: candidate line i (0-based) matches
LinesMatchAtBad(docLines, eff, i) == TRUE
LinesMatchAt(docLines, eff, i) ==
    \A j \in 0..(Len(eff) - 1) : Trim(docLines[i + j + 1]) = Trim(eff[j + 1])

\* foundLineIndex: lowest matching 0-based line index, or -1
FoundLineIndexBad(docLines, eff) ==
    LET hits == {i \in 0..(Len(docLines) - Len(eff)) : LinesMatchAt(docLines, eff, i)}
    IN IF hits = {} THEN -1 ELSE CHOOSE i \in hits : \A h \in hits : i >= h

FoundLineIndex(docLines, eff) ==
    LET hits == {i \in 0..(Len(docLines) - Len(eff)) : LinesMatchAt(docLines, eff, i)}
    IN IF hits = {} THEN -1 ELSE CHOOSE i \in hits : \A h \in hits : i <= h

\* The match of a MODIFY against the document text: the range to replace as
\* 0-based offsets [start, end), or the error that is thrown.
LocateBad(fullText, before) ==
    LET offset == IndexOf(fullText, SearchText(before))
        docLines == SplitLines(fullText)
        eff == IF before = NoBlock THEN <<>> ELSE EffectiveSearchLines(before)
        foundLineIndex == FoundLineIndex(docLines, eff)
    IN IF before = NoBlock
       THEN [kind |-> "TypeError", start |-> 0, end |-> 0]
       ELSE IF Len(eff) > 0 /\ foundLineIndex # -1
       THEN [kind |-> "range",
             start |-> LineStart(fullText, foundLineIndex),
             end |-> LineEnd(fullText, foundLineIndex + Len(eff) - 1)]
       ELSE IF offset # -1
       THEN [kind |-> "range", start |-> offset, end |-> offset + Len(before)]
       ELSE IF Len(eff) = 0
       THEN [kind |-> "EmptyPatchBlock", start |-> 0, end |-> 0]
       ELSE [kind |-> "PatchNotFound", start |-> 0, end |-> 0]
Locate(fullText, before) ==
    LET offset == IndexOf(fullText, SearchText(before))
    IN IF before = NoBlock
       THEN [kind |-> "TypeError", start |-> 0, end |-> 0]
       ELSE IF offset # -1
       THEN [kind |-> "range", start |-> offset, end |-> offset + Len(before)]
       ELSE LET docLines == SplitLines(fullText)
                eff == EffectiveSearchLines(before)
                foundLineIndex == FoundLineIndex(docLines, eff)
            IN IF Len(eff) = 0
               THEN [kind |-> "EmptyPatchBlock", start |-> 0, end |-> 0]
               ELSE IF foundLineIndex # -1
               THEN [kind |-> "range",
                     start |-> LineStart(fullText, foundLineIndex),
                     end |-> LineEnd(fullText, foundLineIndex + Len(eff) - 1)]
               ELSE [kind |-> "PatchNotFound", start |-> 0, end |-> 0]

\* TextEditorEdit.replace: an undefined replacement text deletes the range
Replace(fullText, start, end, content) ==
    Slice(fullText, 0, start)
      \o (IF content = NoBlock THEN <<>> ELSE content)
      \o Slice(fullText, end, Len(fullText))

\* ------------------------------------------------------------ ActionParser
Label(name, val) == [t |-> "label", name |-> name, val |-> val, text |-> <<>>]
Fence(text) == [t |-> "fence", name |-> "", val |-> "", text |-> text]
Block(kind, body) == [kind |-> kind, body |-> body]

\* the labels are matched with the i flag
UpperCase(name) ==
    CASE name = "file" -> "FILE"
      [] name = "before" -> "BEFORE"
      [] name = "after" -> "AFTER"
      [] name = "content" -> "CONTENT"
      [] name = "command" -> "COMMAND"
      [] name = "url" -> "URL"
      [] OTHER -> name

\* 1-based position of the first label token named field, 0 if there is none
LabelPos(body, field) ==
    LET hits == {k \in 1..Len(body) :
                    body[k].t = "label" /\ UpperCase(body[k].name) = field}
    IN IF hits = {} THEN 0 ELSE CHOOSE k \in hits : \A h \in hits : k <= h

\* getField: the rest of the line of the first label, trimmed; the values
\* of the response universe are single words, which trim leaves alone
getField(body, field) ==
    LET k == LabelPos(body, field)
    IN IF k = 0 THEN NoField ELSE body[k].val

IsWord(c) == c \in {"a", "b", "c"}

RECURSIVE DropWord(_)
DropWord(s) == IF s # <<>> /\ IsWord(Head(s)) THEN DropWord(Tail(s)) ELSE s

\* the capture group of the fence regex: the language tag [\w]* and one
\* newline are skipped after the opening fence, one newline before the
\* closing fence
FenceContent(raw) ==
    LET a == DropWord(raw)
        b == IF a # <<>> /\ Head(a) = "\n" THEN Tail(a) ELSE a
    IN IF b # <<>> /\ b[Len(b)] = "\n" THEN SubSeq(b, 1, Len(b) - 1) ELSE b

\* getCodeBlock: the first fenced block after the first label named field
getCodeBlockBad(body, field) ==
    LET k == LabelPos(body, field)
        hits == {f \in 1..Len(body) : f > k /\ body[f].t = "fence"}
    IN IF k = 0 \/ hits = {} THEN <<>>
       ELSE FenceContent(body[CHOOSE f \in hits : \A h \in hits : f <= h].text)
getCodeBlock(body, field) ==
    LET k == LabelPos(body, field)
        hits == {f \in 1..Len(body) : f > k /\ body[f].t = "fence"}
    IN IF k = 0 \/ hits = {} THEN NoBlock
       ELSE FenceContent(body[CHOOSE f \in hits : \A h \in hits : f <= h].text)

\* the action record built from one block (lines 192-219)
NewAction(uid, id, block) ==
    LET type == block.kind
        body == block.body
    IN [uid |-> uid, id |-> id, type |-> type,
        path |-> IF type \in {"MODIFY", "CREATE", "DELETE"}
                 THEN getField(body, "FILE") ELSE NoField,
        before |-> IF type = "MODIFY" THEN getCodeBlock(body, "BEFORE") ELSE NoBlock,
        content |-> IF type = "MODIFY" THEN getCodeBlock(body, "AFTER")
                    ELSE IF type = "CREATE" THEN getCodeBlock(body, "CONTENT")
                    ELSE NoBlock,
        command |-> IF type = "SHELL" THEN getField(body, "COMMAND") ELSE NoField,
        url |-> IF type = "FETCH" THEN getField(body, "URL") ELSE NoField]

\* the guard of line 221: the kind word is a non-empty string
Queued(action) == action.type # ""

\* ---------------------------------------------------- PendingActionStore
\* findIndex(a => a.id === actionId) as a 1-based position, 0 for -1
findIndex(pending, actionId) ==
    LET hits == {k \in 1..Len(pending) : pending[k].id = actionId}
    IN IF hits = {} THEN 0 ELSE CHOOSE k \in hits : \A h \in hits : k <= h

\* splice(index, 1): the element at the position is taken out, if there is one
SpliceBad(pending, index) ==
    IF index \in 1..Len(pending)
    THEN [k \in 1..(Len(pending) - 1) |->
             IF k = index THEN pending[Len(pending)] ELSE pending[k]]
    ELSE pending
Splice(pending, index) ==
    IF index \in 1..Len(pending)
    THEN SubSeq(pending, 1, index - 1) \o SubSeq(pending, index + 1, Len(pending))
    ELSE pending

Uids(pending) == {pending[k].uid : k \in 1..Len(pending)}

\* filter(a => a.type !== 'SHELL')
NonShellBad(pending) ==
    SelectSeq(pending, LAMBDA a : a.type \in KnownTypes \ {"SHELL"})
NonShell(pending) == SelectSeq(pending, LAMBDA a : a.type # "SHELL")

\* map(a => a.id)
IdsOf(pending) == [k \in 1..Len(pending) |-> pending[k].id]
UidsOf(pending) == [k \in 1..Len(pending) |-> pending[k].uid]

\* -------------------------------------------------------- ActionExecutor
NoAction ==
    [uid |-> 0, id |-> 0, type |-> "", path |-> NoField, before |-> NoBlock,
     content |-> NoBlock, command |-> NoField, url |-> NoField]

\* the locals of one executeAction call; pc names the awaited call it is
\* suspended at
NoExec ==
    [pc |-> "none", actionId |-> 0, index |-> 0, action |-> NoAction,
     text |-> NoFile, start |-> 0, end |-> 0]

\* the outcome of one executeAction call that found its action, with what
\* the call did to the store: removed is the action it spliced out
Outcome(x, by, inSnap, outcome, error, removed, pending) ==
    [actionId |-> x.actionId, uid |-> x.action.uid, type |-> x.action.type,
     action |-> x.action, by |-> by, inSnap |-> inSnap, outcome |-> outcome, error |-> error,
     removed |-> removed.uid, removedType |-> removed.type,
     stillPending |-> x.action.uid \in Uids(pending)]

\* the element splice(index, 1) takes out
At(pending, index) == IF index \in 1..Len(pending) THEN pending[index] ELSE NoAction

\* lines 314-320: the action is spliced out at the index found when the call
\* started, completion is posted and the bulk control is hidden when no
\* non-SHELL action remains
CompleteBad(m, x, by, inSnap) ==
    [m EXCEPT !.toggle = IF Len(NonShell(m.pending)) = 0 THEN "hide" ELSE @,
              !.rets = Append(@, Outcome(x, by, inSnap, "actionComplete", "",
                                         NoAction, m.pending))]
Complete(m, x, by, inSnap) ==
    LET pending == Splice(m.pending, x.index)
    IN [m EXCEPT !.pending = pending,
                 !.toggle = IF Len(NonShell(pending)) = 0 THEN "hide" ELSE @,
                 !.rets = Append(@, Outcome(x, by, inSnap, "actionComplete", "",
                                            At(m.pending, x.index), pending))]

\* lines 322-325: the error is posted, the store is left alone
FailBad(m, x, by, inSnap, error) ==
    [m EXCEPT !.pending = Splice(m.pending, x.index),
              !.rets = Append(@, Outcome(x, by, inSnap, "actionError", error,
                                         At(m.pending, x.index),
                                         Splice(m.pending, x.index)))]
Fail(m, x, by, inSnap, error) ==
    [m EXCEPT !.rets = Append(@, Outcome(x, by, inSnap, "actionError", error,
                                         NoAction, m.pending))]

\* the call returns: nothing more is done to the program state
ReturnedBad(m) ==
    [m |-> [m EXCEPT !.pending = IF Len(@) > 0 THEN Tail(@) ELSE @],
     x |-> NoExec, found |-> 0]
Returned(m) == [m |-> m, x |-> NoExec, found |-> 0]
SuspendedBad(m, x, pc) ==
    [m |-> IF x.index \in 1..Len(m.pending)
           THEN [m EXCEPT !.pending[x.index].content = <<>>] ELSE m,
     x |-> [x EXCEPT !.pc = pc], found |-> x.action.uid]
Suspended(m, x, pc) == [m |-> m, x |-> [x EXCEPT !.pc = pc], found |-> x.action.uid]

\* executeAction from its entry to its first awaited call or to its return
\* (lines 235-246, 296-315)
ExecBeginBad(m, actionId, by, snap) ==
    LET index == findIndex(m.pending, actionId)
        action == IF index = 0 THEN NoAction ELSE m.pending[index]
        x == [NoExec EXCEPT !.actionId = actionId, !.index = index, !.action = action]
        inSnap == action.uid \in snap
        done(mm) == [Returned(mm) EXCEPT !.found = action.uid]
    IN IF index = 0 THEN Returned([m EXCEPT !.missed = Append(@, actionId)])
       ELSE IF ~m.ws /\ action.type # "MODIFY" THEN done(Fail(m, x, by, inSnap, "NoWorkspace"))
       ELSE IF action.type \in {"MODIFY", "CREATE", "DELETE"}
       THEN IF action.path = NoField
            THEN done(Fail(m, x, by, inSnap, "TypeError"))
            ELSE Suspended(m, x, CASE action.type = "MODIFY" -> "open"
                                   [] action.type = "CREATE" -> "write"
                                   [] action.type = "DELETE" -> "delete")
       ELSE IF action.type = "SHELL"
       THEN done(Complete([m EXCEPT !.terminal = Append(@, action.command)],
                          x, by, inSnap))
       ELSE IF action.type = "FETCH"
       THEN done(Complete([m EXCEPT !.opened =
                                IF action.url \notin {NoField, ""}
                                THEN Append(@, action.url) ELSE @],
                          x, by, inSnap))
       ELSE done(Complete(m, x, by, inSnap))
ExecBegin(m, actionId, by, snap) ==
    LET index == findIndex(m.pending, actionId)
        action == IF index = 0 THEN NoAction ELSE m.pending[index]
        x == [NoExec EXCEPT !.actionId = actionId, !.index = index, !.action = action]
        inSnap == action.uid \in snap
        done(mm) == [Returned(mm) EXCEPT !.found = action.uid]
    IN IF index = 0 THEN Returned([m EXCEPT !.missed = Append(@, actionId)])
       ELSE IF ~m.ws THEN done(Fail(m, x, by, inSnap, "NoWorkspace"))
       ELSE IF action.type \in {"MODIFY", "CREATE", "DELETE"}
       THEN IF action.path = NoField
            THEN done(Fail(m, x, by, inSnap, "TypeError"))
            ELSE Suspended(m, x, CASE action.type = "MODIFY" -> "open"
                                   [] action.type = "CREATE" -> "write"
                                   [] action.type = "DELETE" -> "delete")
       ELSE IF action.type = "SHELL"
       THEN done(Complete([m EXCEPT !.terminal = Append(@, action.command)],
                          x, by, inSnap))
       ELSE IF action.type = "FETCH"
       THEN done(Complete([m EXCEPT !.opened =
                                IF action.url \notin {NoField, ""}
                                THEN Append(@, action.url) ELSE @],
                          x, by, inSnap))
       ELSE done(Complete(m, x, by, inSnap))

\* doc.getText() of line 248: the text of the open document when the call
\* of showTextDocument has returned; a document whose file was deleted
\* meanwhile keeps the text it was opened with
CurrentTextBad(m, x) == x.text
CurrentText(m, x) ==
    IF m.files[x.action.path] = NoFile THEN x.text ELSE m.files[x.action.path]

\* executeAction from the settling of the call it awaits to its next awaited
\* call or to its return; ok: the call resolved, otherwise it rejected
ExecResumeBad(m, x, by, snap, ok) ==
    LET path == x.action.path
        inSnap == x.action.uid \in snap
        done(mm) == [Returned(mm) EXCEPT !.found = x.action.uid]
    IN CASE x.pc = "open" ->
              IF ok THEN Suspended(m, [x EXCEPT !.text = m.files[path]], "show")
              ELSE done(Fail(m, x, by, inSnap, "FileReadError"))
         [] x.pc = "show" ->
              IF ~ok THEN done(Fail(m, x, by, inSnap, "IOError"))
              ELSE LET fullText == CurrentText(m, x)
                       loc == Locate(fullText, x.action.before)
                   IN IF loc.kind = "range"
                      THEN Suspended(m, [x EXCEPT !.text = fullText,
                                                  !.start = loc.start,
                                                  !.end = loc.end], "edit")
                      ELSE done(Fail(m, x, by, inSnap, loc.kind))
         [] x.pc = "edit" ->
              done(Complete([m EXCEPT !.files[path] =
                                 IF @ = x.text
                                 THEN Replace(@, x.start, x.end, x.action.content)
                                 ELSE @],
                            x, by, inSnap))
         [] x.pc = "write" ->
              IF ok THEN done(Complete([m EXCEPT !.files[path] =
                                            IF @ # NoFile THEN @
                                            ELSE IF x.action.content = NoBlock
                                            THEN <<>> ELSE x.action.content],
                                       x, by, inSnap))
              ELSE done(Fail(m, x, by, inSnap, "IOError"))
         [] x.pc = "delete" ->
              IF ok THEN done(Complete([m EXCEPT !.files[path] = NoFile], x, by, inSnap))
              ELSE done(Fail(m, x, by, inSnap, "IOError"))
ExecResume(m, x, by, snap, ok) ==
    LET path == x.action.path
        inSnap == x.action.uid \in snap
        done(mm) == [Returned(mm) EXCEPT !.found = x.action.uid]
    IN CASE x.pc = "open" ->
              IF ok THEN Suspended(m, [x EXCEPT !.text = m.files[path]], "show")
              ELSE done(Fail(m, x, by, inSnap, "FileReadError"))
         [] x.pc = "show" ->
              IF ~ok THEN done(Fail(m, x, by, inSnap, "IOError"))
              ELSE LET fullText == CurrentText(m, x)
                       loc == Locate(fullText, x.action.before)
                   IN IF loc.kind = "range"
                      THEN Suspended(m, [x EXCEPT !.text = fullText,
                                                  !.start = loc.start,
                                                  !.end = loc.end], "edit")
                      ELSE done(Fail(m, x, by, inSnap, loc.kind))
         [] x.pc = "edit" ->
              done(Complete([m EXCEPT !.files[path] =
                                 IF @ = x.text
                                 THEN Replace(@, x.start, x.end, x.action.content)
                                 ELSE @],
                            x, by, inSnap))
         [] x.pc = "write" ->
              IF ok THEN done(Complete([m EXCEPT !.files[path] =
                                            IF x.action.content = NoBlock
                                            THEN <<>> ELSE x.action.content],
                                       x, by, inSnap))
              ELSE done(Fail(m, x, by, inSnap, "IOError"))
         [] x.pc = "delete" ->
              IF ok THEN done(Complete([m EXCEPT !.files[path] = NoFile], x, by, inSnap))
              ELSE done(Fail(m, x, by, inSnap, "IOError"))

\* whether the awaited call can resolve: a document opens and a file is
\* deleted only if the file exists; every awaited call but the edit can reject
CanResolve(m, x) ==
    IF x.pc \in {"open", "delete"} THEN m.files[x.action.path] # NoFile ELSE TRUE
CanRejectBad(x) == FALSE
CanReject(x) == x.pc # "edit"

\* ---------------------------------------------------- ApprovalController
\* one invocation of the message handler: kind is the request, x the
\* executeAction call it is suspended in, actionIds and skippedCount the
\* locals of handleApproveAll, pos the position of the for loop; snap and
\* attempted record the snapshot and the executions begun, failedAt the
\* loop position of the first execution that failed
NoTask ==
    [kind |-> "idle", x |-> NoExec, actionIds |-> <<>>, pos |-> 0,
     skippedCount |-> 0, snap |-> <<>>, attempted |-> <<>>, failedAt |-> 0]

Range(seq) == {seq[k] : k \in 1..Len(seq)}

\* what a bulk approval did, recorded when it returns
BulkSummary(tk, pending) ==
    [actionIds |-> tk.actionIds, calls |-> tk.pos - 1, snap |-> tk.snap,
     attempted |-> tk.attempted, skippedCount |-> tk.skippedCount,
     failedAt |-> tk.failedAt]

\* lines 98-105: the skip notice and the hiding of the bulk control
FinishAllBad(m, tk) ==
    LET remaining == SelectSeq(m.pending, LAMBDA a : a.id \notin Range(tk.actionIds))
        shells == Len(m.pending) - Len(NonShell(m.pending))
    IN [m EXCEPT !.chat = IF shells > 0
                          THEN Append(@, [role |-> "system", n |-> shells])
                          ELSE @,
                 !.toggle = IF Len(remaining) = 0
                               \/ \A k \in 1..Len(remaining) : remaining[k].type = "SHELL"
                            THEN "hide" ELSE @,
                 !.bulks = Append(@, BulkSummary(tk, m.pending))]
FinishAll(m, tk) ==
    LET remaining == SelectSeq(m.pending, LAMBDA a : a.id \notin Range(tk.actionIds))
    IN [m EXCEPT !.chat = IF tk.skippedCount > 0
                          THEN Append(@, [role |-> "system", n |-> tk.skippedCount])
                          ELSE @,
                 !.toggle = IF Len(remaining) = 0
                               \/ \A k \in 1..Len(remaining) : remaining[k].type = "SHELL"
                            THEN "hide" ELSE @,
                 !.bulks = Append(@, BulkSummary(tk, m.pending))]

\* the last outcome posted in this step is an error
Failed(m) == m.rets # <<>> /\ m.rets[Len(m.rets)].outcome = "actionError"

\* the loop has passed position tk.pos; m is the state its call returned in
Passed(m0, m, tk, found) ==
    [tk EXCEPT !.x = NoExec,
               !.pos = @ + 1,
               !.attempted = IF found # 0 THEN Append(@, found) ELSE @,
               !.failedAt = IF @ = 0 /\ Len(m.rets) > Len(m0.rets) /\ Failed(m)
                            THEN tk.pos ELSE @]

\* the for loop of lines 94-96 from position tk.pos on, up to the next
\* awaited collaborator call or to the return of handleApproveAll
\* (r is what the executeAction call of this iteration returned)
RECURSIVE RunAllBad(_, _)
RunAllBad(m, tk) ==
    IF tk.pos > Len(tk.actionIds) \/ tk.failedAt # 0
    THEN [m |-> FinishAll(m, tk), tk |-> NoTask]
    ELSE CHOOSE ra \in
            {IF r.x.pc # "none"
             THEN [m |-> r.m,
                   tk |-> [tk EXCEPT !.x = r.x, !.attempted = Append(@, r.found)]]
             ELSE RunAllBad(r.m, Passed(m, r.m, tk, r.found)) :
                r \in {ExecBegin(m, tk.actionIds[tk.pos], "all", Range(tk.snap))}} : TRUE

RECURSIVE RunAll(_, _)
RunAll(m, tk) ==
    IF tk.pos > Len(tk.actionIds)
    THEN [m |-> FinishAll(m, tk), tk |-> NoTask]
    ELSE CHOOSE ra \in
            {IF r.x.pc # "none"
             THEN [m |-> r.m,
                   tk |-> [tk EXCEPT !.x = r.x, !.attempted = Append(@, r.found)]]
             ELSE RunAll(r.m, Passed(m, r.m, tk, r.found)) :
                r \in {ExecBegin(m, tk.actionIds[tk.pos], "all", Range(tk.snap))}} : TRUE

\* lines 89-93: the snapshot of handleApproveAll
StartAll(pending) ==
    LET safeActions == NonShell(pending)
    IN [NoTask EXCEPT !.kind = "all",
                      !.actionIds = IdsOf(safeActions),
                      !.pos = 1,
                      !.skippedCount = Len(pending) - Len(safeActions),
                      !.snap = UidsOf(safeActions)]

\* ----------------------------------------------------------------- state
VARIABLES
    pendingActions,    \* _pendingActions
    files,             \* text of the document at each path, NoFile if none
    terminal,          \* commands sent to the terminal by the last step
    opened,            \* urls handed to openExternal by the last step
    toggleApproveAll,  \* the last toggleApproveAll posted: "show", "hide"
    workspaceRoot,     \* a workspace folder is open
    tasks,             \* the handler invocations suspended at an await
    nextUid,           \* identity of the next action object
    handled,           \* messages and commands handled so far
    requests,          \* messages and commands the user sends in this run
    rets,              \* outcomes posted by the last step
    chat,              \* messages added to the history by the last step
    bulks,             \* bulk approvals that returned in the last step
    missed,            \* ids executeAction found no action for in the last step
    cleared,           \* the actions clearChat has dropped from the store
    universe           \* the responses of this run, each with its draw of ids

vars == <<pendingActions, files, terminal, opened, toggleApproveAll,
          workspaceRoot, tasks, nextUid, handled, requests, rets, chat, bulks,
          missed, cleared, universe>>

Paths == {"f"}

\* the program state the operators above work on, at the start of a step
MachineBad ==
    [pending |-> pendingActions, files |-> files, terminal |-> <<>>,
     opened |-> <<>>, toggle |-> toggleApproveAll, ws |-> TRUE,
     rets |-> <<>>, chat |-> <<>>, bulks |-> <<>>, missed |-> <<>>,
     cleared |-> cleared]
Machine ==
    [pending |-> pendingActions, files |-> files, terminal |-> <<>>,
     opened |-> <<>>, toggle |-> toggleApproveAll, ws |-> workspaceRoot,
     rets |-> <<>>, chat |-> <<>>, bulks |-> <<>>, missed |-> <<>>,
     cleared |-> cleared]

Store(m) ==
    /\ pendingActions' = m.pending
    /\ files' = m.files
    /\ terminal' = m.terminal
    /\ opened' = m.opened
    /\ toggleApproveAll' = m.toggle
    /\ rets' = m.rets
    /\ chat' = m.chat
    /\ bulks' = m.bulks
    /\ missed' = m.missed
    /\ cleared' = m.cleared

\* the blocks of the responses: the five tool calls as the prompt of lines
\* 143-178 lays them out, and a block of no known kind
Lines(text) == <<"\n">> \o text \o <<"\n">>
ModifyBlock ==
    Block("MODIFY", <<Label("FILE", "f"), Label("BEFORE", ""), Fence(Lines(<<"a">>)),
                      Label("AFTER", ""), Fence(Lines(<<"b">>))>>)
CreateBlock ==
    Block("CREATE", <<Label("FILE", "f"), Label("CONTENT", ""), Fence(Lines(<<"a">>))>>)
DeleteBlock == Block("DELETE", <<Label("FILE", "f")>>)
ShellBlock == Block("SHELL", <<Label("COMMAND", "c")>>)
FetchBlock == Block("FETCH", <<Label("URL", "u")>>)
OtherBlock == Block("FOO", <<>>)

Blocks == {ModifyBlock, CreateBlock, DeleteBlock, ShellBlock, FetchBlock, OtherBlock}

\* the responses a run can apply: no block, one block, two blocks, and the
\* queue [Modify, Shell, Create]
Responses ==
    {<<>>} \cup {<<b>> : b \in Blocks} \cup {<<a, b>> : a, b \in Blocks}
      \cup {<<ModifyBlock, ShellBlock, CreateBlock>>}

\* the draws of Math.random for a batch of n actions, up to the names of the
\* ids: draw[k] = k is a new id, draw[k] = j < k repeats the id of action j
Draws(n) ==
    {d \in [1..n -> 1..n] : \A k \in 1..n : d[k] <= k /\ d[d[k]] = d[k]}

Distinct(n) == [k \in 1..n |-> k]

\* what a run is given: the response the user pastes and the draw of ids
Inputs ==
    UNION {{[resp |-> r, draw |-> d] : d \in Draws(Len(r))} : r \in Responses}

InitRun(inputs, docs, n) ==
    /\ pendingActions = <<>>
    /\ files \in [Paths -> docs]
    /\ terminal = <<>>
    /\ opened = <<>>
    /\ toggleApproveAll = "hide"
    /\ workspaceRoot \in BOOLEAN
    /\ tasks = [t \in TaskIds |-> NoTask]
    /\ nextUid = 1
    /\ handled = 0
    /\ requests = n
    /\ rets = <<>>
    /\ chat = <<>>
    /\ bulks = <<>>
    /\ missed = <<>>
    /\ cleared = {}
    /\ universe \in inputs

InitWith(inputs, docs) == InitRun(inputs, docs, MaxRequests)

Docs == {NoFile, <<"a">>}

Init == InitWith({{u} : u \in Inputs}, Docs)

\* the runs in which Math.random repeats no id
InitDistinct ==
    InitWith({{u} : u \in {v \in Inputs : v.draw = Distinct(Len(v.resp))}}, Docs)

\* ------------------------------------------------- runs over MODIFY texts
\* a MODIFY block as the prompt lays it out, with its two fenced texts
ModifyOf(before, after) ==
    Block("MODIFY", <<Label("FILE", "f"), Label("BEFORE", ""), Fence(Lines(before)),
                      Label("AFTER", ""), Fence(Lines(after))>>)

\* the document texts of these runs
TextDocs ==
    {<<>>,
     <<"a">>,
     <<"a", " ", "b">>,
     <<"a", "\n", " ", "a">>,
     <<"b", "\r", "\n", "a">>,
     <<"a", "\n", "b", "\n", "c", "\n">>,
     <<" ", "a", "\n", " ", " ", "b", "\n">>}

\* the BEFORE texts of these runs
Befores ==
    {<<>>,
     <<" ">>,
     <<"\n">>,
     <<"b">>,
     <<" ", "a">>,
     <<"a", " ">>,
     <<"a", "\n", "b">>,
     <<"b", "\n", "a">>,
     <<"\n", "a", "\n">>}

\* a MODIFY block without its BEFORE part
ModifyNoBefore ==
    Block("MODIFY", <<Label("FILE", "f"), Label("AFTER", ""), Fence(Lines(<<"b">>))>>)

\* blocks of a known kind in which a field the executor reads is not given
IncompleteBlocks ==
    {Block("MODIFY", <<Label("BEFORE", ""), Fence(Lines(<<"a">>)),
                       Label("AFTER", ""), Fence(Lines(<<"b">>))>>),
     ModifyNoBefore,
     Block("CREATE", <<Label("CONTENT", ""), Fence(Lines(<<"a">>))>>),
     Block("DELETE", <<>>),
     Block("SHELL", <<>>),
     Block("FETCH", <<>>)}

\* two MODIFY blocks on one file, the second changing what the first wrote
ChainedModify == <<ModifyOf(<<"a">>, <<"b">>), ModifyOf(<<"b">>, <<"c">>)>>

\* a CREATE block with the content given
CreateOf(content) ==
    Block("CREATE", <<Label("FILE", "f"), Label("CONTENT", ""), Fence(Lines(content))>>)

\* two CREATE blocks for one path
ChainedCreate == <<CreateOf(<<"a">>), CreateOf(<<"b">>)>>

\* a CREATE block without its CONTENT part
CreateNoContent == Block("CREATE", <<Label("FILE", "f")>>)

\* the document text that reads undefined
UndefinedText == SearchText(NoBlock)

\* a response without a TOOL_CALL marker
NoToolCall == [resp |-> <<>>, draw |-> <<>>]

\* what a run over texts is given, all ids distinct: one MODIFY block
ModifyInputs ==
    {{[resp |-> <<ModifyOf(before, <<"x">>)>>, draw |-> Distinct(1)]} : before \in Befores}

\* or an incomplete block or the chained blocks, and a text without a marker
OtherInputs ==
    {{[resp |-> r, draw |-> Distinct(Len(r))], NoToolCall} :
        r \in {<<b>> : b \in IncompleteBlocks}
                \cup {ChainedModify, ChainedCreate, <<CreateNoContent>>}}

\* the runs over texts: a MODIFY block against every document text, the
\* other responses against the document a, the MODIFY block without BEFORE
\* against the document that reads undefined
InitTexts ==
    \/ InitWith(ModifyInputs, TextDocs)
    \/ InitWith(OtherInputs, {<<"a">>})
    \/ InitWith({{[resp |-> <<ModifyNoBefore>>, draw |-> Distinct(1)]}}, {UndefinedText})

\* the longer runs: one request more, on one CREATE block and one document
LongRuns == MaxRequests + 1

InitLong ==
    InitRun({{[resp |-> <<CreateBlock>>, draw |-> Distinct(1)]}}, {<<"a">>}, LongRuns)

\* --------------------------------------------------------------- actions
\* a message or command is taken from the event queue
Request ==
    /\ handled < requests
    /\ handled' = handled + 1
    /\ requests' = requests

\* lines 184-233: parseAndConfirmActions on a response of blocks, each new
\* action taking a random id; the response is recorded in the history by the
\* number of its blocks
ParseIntoBad(m, resp, ids, uid0) ==
    LET made == [k \in 1..Len(resp) |-> NewAction(uid0 + k - 1, ids[k], resp[k])]
        currentBatch == SelectSeq(made, Queued)
    IN [m EXCEPT !.pending = @ \o currentBatch,
                 !.chat = <<[role |-> "ai", n |-> Len(resp)]>>
                          \o [k \in 1..Len(currentBatch) |-> [role |-> "action", n |-> 0]]
                          \o (IF Len(m.pending \o currentBatch) > 0 THEN <<>>
                              ELSE <<[role |-> "error", n |-> 0]>>),
                 !.toggle = IF Len(currentBatch) > 0 THEN "show" ELSE @]

ParseInto(m, resp, ids, uid0) ==
    LET made == [k \in 1..Len(resp) |-> NewAction(uid0 + k - 1, ids[k], resp[k])]
        currentBatch == SelectSeq(made, Queued)
    IN [m EXCEPT !.pending = @ \o currentBatch,
                 !.chat = <<[role |-> "ai", n |-> Len(resp)]>>
                          \o [k \in 1..Len(currentBatch) |-> [role |-> "action", n |-> 0]]
                          \o (IF Len(currentBatch) > 0 THEN <<>>
                              ELSE <<[role |-> "error", n |-> 0]>>),
                 !.toggle = IF Len(currentBatch) > 0 THEN "show" ELSE @]

\* the applyChange message (line 52): the response of this run is parsed,
\* Math.random (line 194) giving the k-th action of the batch a new id or,
\* where the run's draw repeats, the id of an earlier action of the batch
ApplyChange ==
    /\ Request
    /\ \E u \in universe :
          /\ Store(ParseInto(Machine, u.resp,
                             [k \in 1..Len(u.resp) |-> nextUid + u.draw[k] - 1],
                             nextUid))
          /\ nextUid' = nextUid + Len(u.resp)
    /\ UNCHANGED <<workspaceRoot, tasks, universe>>

FreeTask(t) ==
    /\ tasks[t].kind = "idle"
    /\ \A u \in TaskIds : u < t => tasks[u].kind # "idle"

\* the approveAction message (line 55), naming the id of an action that was
\* queued at some time or an id that no action has
ApproveAction ==
    /\ Request
    /\ \E t \in TaskIds : \E actionId \in 1..nextUid :
        /\ FreeTask(t)
        /\ LET r == ExecBegin(Machine, actionId, "one", {})
           IN /\ Store(r.m)
              /\ tasks' = [tasks EXCEPT ![t] =
                              IF r.x.pc = "none" THEN NoTask
                              ELSE [NoTask EXCEPT !.kind = "one", !.x = r.x]]
        /\ UNCHANGED <<workspaceRoot, nextUid, universe>>

\* the approveAll message (line 58)
ApproveAll ==
    /\ Request
    /\ \E t \in TaskIds :
        /\ FreeTask(t)
        /\ LET r == RunAll(Machine, StartAll(pendingActions))
           IN /\ Store(r.m)
              /\ tasks' = [tasks EXCEPT ![t] = r.tk]
        /\ UNCHANGED <<workspaceRoot, nextUid, universe>>

\* the collaborator call a handler awaits settles and the handler runs on
Settle ==
    \E t \in TaskIds : \E ok \in BOOLEAN :
        /\ tasks[t].kind # "idle"
        /\ IF ok THEN CanResolve(Machine, tasks[t].x) ELSE CanReject(tasks[t].x)
        /\ LET tk == tasks[t]
               by == IF tk.kind = "all" THEN "all" ELSE "one"
           IN \E r \in {ExecResume(Machine, tk.x, by, Range(tk.snap), ok)} :
                 IF r.x.pc # "none"
                 THEN /\ Store(r.m)
                      /\ tasks' = [tasks EXCEPT ![t].x = r.x]
                 ELSE IF tk.kind = "one"
                 THEN /\ Store(r.m)
                      /\ tasks' = [tasks EXCEPT ![t] = NoTask]
                 ELSE \E ra \in {RunAll(r.m, Passed(Machine, r.m, tk, 0))} :
                         /\ Store(ra.m)
                         /\ tasks' = [tasks EXCEPT ![t] = ra.tk]
        /\ UNCHANGED <<workspaceRoot, nextUid, handled, requests, universe>>

\* lines 75-82: restoreHistory
RestoreHistory(m) ==
    [m EXCEPT !.toggle = IF Len(m.pending) > 0 THEN "show" ELSE @]

\* lines 67-73: the clearHistory command
ClearChatBad ==
    /\ Request
    /\ Store(RestoreHistory([Machine EXCEPT !.cleared = @ \cup Uids(pendingActions),
                                            !.chat = <<[role |-> "system", n |-> 0]>>]))
    /\ UNCHANGED <<workspaceRoot, tasks, nextUid, universe>>
ClearChat ==
    /\ Request
    /\ Store(RestoreHistory([Machine EXCEPT !.pending = <<>>,
                                            !.cleared = @ \cup Uids(pendingActions),
                                            !.chat = <<[role |-> "system", n |-> 0]>>]))
    /\ UNCHANGED <<workspaceRoot, tasks, nextUid, universe>>

\* the ready message (line 60)
Ready ==
    /\ Request
    /\ Store(RestoreHistory(Machine))
    /\ UNCHANGED <<workspaceRoot, tasks, nextUid, universe>>

Next ==
    \/ ApplyChange
    \/ ApproveAction
    \/ ApproveAll
    \/ Settle
    \/ ClearChat
    \/ Ready

Spec == Init /\ [][Next]_vars

SpecDistinct == InitDistinct /\ [][Next]_vars

SpecTexts == InitTexts /\ [][Next]_vars

SpecLong == InitLong /\ [][Next]_vars

\* the runs in which every awaited collaborator call eventually returns or
\* throws: a handler suspended at a call is not left waiting for ever
FairResponses ==
    {<<ModifyBlock, ShellBlock, CreateBlock>>, <<CreateBlock, DeleteBlock>>,
     <<ModifyBlock, OtherBlock>>}
InitFair ==
    InitWith({{[resp |-> r, draw |-> Distinct(Len(r))]} : r \in FairResponses}, Docs)

SpecFair == InitFair /\ [][Next]_vars /\ WF_vars(Settle)

\* ---------------------------------------------------------------- claims
Posted(outcome) == {k \in 1..Len(rets) : rets[k].outcome = outcome}
Suspended2 == {t \in TaskIds : tasks[t].kind # "idle"}

\* C1: a bulk approval executes exactly the non-SHELL actions that were
\* pending when it was invoked, in their insertion order: when it returns,
\* the executions it began are those of its snapshot, in that order.
C1_BulkExecutesSnapshot ==
    \A k \in 1..Len(bulks) : bulks[k].attempted = bulks[k].snap

\* C2: a bulk approval never runs a SHELL action and leaves the SHELL
\* actions queued: no execution started by handleApproveAll executes a SHELL
\* action or takes one out of the pending store.
C2_BulkNeverRunsShell ==
    \A k \in 1..Len(rets) :
        rets[k].by = "all" => rets[k].type # "SHELL" /\ rets[k].removedType # "SHELL"

\* C3 as stated: when executeAction returns for an action that was pending,
\* with a completion or with an error, that action is no longer in the
\* pending store.
C3_RemovedWhetherCompletedOrFailed ==
    \A k \in 1..Len(rets) : ~rets[k].stillPending

\* C3 as amended: an execution that fails is not a removal; a step in which
\* executions only report errors leaves the pending store exactly as it was.
C3_FailedExecutionLeavesStore ==
    [][(rets' # <<>> /\ \A k \in 1..Len(rets') : rets'[k].outcome = "actionError")
          => pendingActions' = pendingActions]_vars

\* an execution has failed and its action is still queued
C3_Witness ==
    \E k \in Posted("actionError") : rets[k].stillPending /\ rets[k].removed = 0

\* C4: requests are handled one at a time: never are two handler
\* invocations suspended in an execution at the same time.
C4_OneRequestAtATime == Cardinality(Suspended2) <= 1

\* C5: while an execution of an action awaits a collaborator call, a second
\* approval of the same id starts no second execution of that action.
C5_NoSecondExecution ==
    \A t, u \in Suspended2 :
        t # u => tasks[t].x.action.uid # tasks[u].x.action.uid

\* C6: an execution of the action with id X takes nothing but that action
\* out of the pending store.
C6_OnlyExecutedActionRemoved ==
    \A k \in 1..Len(rets) : rets[k].removed \in {0, rets[k].uid}

\* C7: when actionComplete is posted for an action, that action is no
\* longer in the pending store.
C7_CompleteMeansRemoved ==
    \A k \in Posted("actionComplete") : ~rets[k].stillPending

C9_NoEffectWithoutApproval ==
    \A k \in Posted("actionComplete") : rets[k].by = "one" \/ rets[k].inSnap

\* C10: every pending action has one of the five kinds.
C10_PendingKindsClosed ==
    \A k \in 1..Len(pendingActions) : pendingActions[k].type \in KnownTypes

\* the step is a call of parseAndConfirmActions: it adds the response to the
\* history
ParseStep == chat' # <<>> /\ chat'[1].role = "ai"

\* the error messages among the messages c
Errors(c) == Cardinality({k \in 1..Len(c) : c[k].role = "error"})

\* C11: a parse reports the error "no actions recognized" once if it
\* appended no action to the pending store and reports no error if it
\* appended one; a text without a TOOL_CALL marker appends nothing, leaves
\* the pending actions as they were and reports the error.
C11_ErrorOncePerEmptyBatch ==
    [][ParseStep =>
         /\ Len(pendingActions') >= Len(pendingActions)
         /\ Errors(chat') = IF Len(pendingActions') = Len(pendingActions) THEN 1 ELSE 0
         /\ chat'[1].n = 0 =>
               pendingActions' = pendingActions /\ Errors(chat') = 1]_vars

\* a text without a marker was parsed while an action was pending
C11_Witness ==
    /\ chat # <<>> /\ chat[1].role = "ai" /\ chat[1].n = 0
    /\ Errors(chat) = 1
    /\ pendingActions # <<>>

\* C12: the pending actions are in the order in which they were appended,
\* and a parse appends the actions of its blocks at the end, in the order of
\* the blocks, leaving the actions before them as they were.
C12_InsertionOrderPreserved ==
    /\ [](\A j, k \in 1..Len(pendingActions) :
             j < k => pendingActions[j].uid < pendingActions[k].uid)
    /\ [][ParseStep =>
            \E u \in universe :
               /\ Len(pendingActions') = Len(pendingActions) + Len(u.resp)
               /\ SubSeq(pendingActions', 1, Len(pendingActions)) = pendingActions
               /\ \A k \in 1..Len(u.resp) :
                     pendingActions'[Len(pendingActions) + k].type = u.resp[k].kind]_vars

\* an approval took an action out and left two or more pending
C12_Witness ==
    /\ Len(pendingActions) >= 2
    /\ \E k \in 1..Len(rets) : rets[k].removed # 0

\* C13: no two actions in the pending store have the same id.
C13_PendingIdsUnique ==
    \A j, k \in 1..Len(pendingActions) :
        j # k => pendingActions[j].id # pendingActions[k].id

\* the handler t is suspended at showTextDocument and this step resumes it:
\* it reads the document text and looks for the BEFORE text of its action
MatchStep(t) == tasks[t].x.pc = "show" /\ tasks'[t] # tasks[t]

\* what the resumed handler did: it issued the replace of a range, or it
\* posted the error named
MatchResult(t) == IF tasks'[t].x.pc = "edit" THEN "range" ELSE rets'[1].error

\* the step looked for a BEFORE text that the parser captured, the call of
\* showTextDocument having resolved
Looked(t) ==
    /\ MatchStep(t)
    /\ MatchResult(t) # "IOError"
    /\ tasks[t].x.action.before # NoBlock

\* the text of the document of handler t at this step
TextNow(t) ==
    IF files[tasks[t].x.action.path] = NoFile THEN tasks[t].x.text
    ELSE files[tasks[t].x.action.path]

\* C14: every MODIFY is matched against the text the file has when the
\* action is executed, so that a MODIFY whose BEFORE text exists only in the
\* result of the MODIFY queued before it finds it.
C14_ModifyMatchesCurrentText ==
    [][\A t \in TaskIds :
          MatchStep(t) /\ MatchResult(t) # "IOError" =>
             LET loc == Locate(TextNow(t), tasks[t].x.action.before)
             IN /\ MatchResult(t) = (IF loc.kind = "range" THEN "range" ELSE loc.kind)
                /\ loc.kind = "range" =>
                      /\ tasks'[t].x.text = TextNow(t)
                      /\ tasks'[t].x.start = loc.start
                      /\ tasks'[t].x.end = loc.end]_vars

\* a bulk approval executed both chained MODIFY actions without a failure
\* and the file holds the result of the second
C14_Witness ==
    /\ \E u \in universe : u.resp = ChainedModify
    /\ files["f"] = <<"c">>
    /\ \E k \in 1..Len(bulks) :
          /\ Len(bulks[k].snap) = 2
          /\ bulks[k].attempted = bulks[k].snap
          /\ bulks[k].failedAt = 0

\* the 0-based offsets at which sub occurs verbatim in text
Occurrences(text, sub) ==
    {k \in 0..(Len(text) - Len(sub)) : SubSeq(text, k + 1, k + Len(sub)) = sub}

\* the handler t is suspended at the edit it issued and this step resumes
\* it, the document being as the handler read it
Edited(t) ==
    /\ tasks[t].x.pc = "edit"
    /\ tasks'[t] # tasks[t]
    /\ files[tasks[t].x.action.path] = tasks[t].x.text

\* the document is its text with the range of handler t replaced by the
\* AFTER text as the parser captured it
Rewritten(t) ==
    LET x == tasks[t].x
    IN files'[x.action.path] =
          SubSeq(x.text, 1, x.start)
            \o (IF x.action.content = NoBlock THEN <<>> ELSE x.action.content)
            \o SubSeq(x.text, x.end + 1, Len(x.text))

\* C15: a BEFORE text that occurs verbatim in the document is matched at
\* its first occurrence: the range to replace is [offset, offset + length of
\* BEFORE), whatever line a match of trimmed lines would start on.
C15_ExactMatchFirstOccurrence ==
    /\ [][\A t \in TaskIds :
             LET before == tasks[t].x.action.before
                 occ == Occurrences(TextNow(t), before)
             IN Looked(t) /\ occ # {} =>
                   /\ MatchResult(t) = "range"
                   /\ tasks'[t].x.start \in occ
                   /\ \A k \in occ : tasks'[t].x.start <= k
                   /\ tasks'[t].x.end = tasks'[t].x.start + Len(before)]_vars
    /\ [][\A t \in TaskIds :
             Edited(t) /\ Occurrences(tasks[t].x.text, tasks[t].x.action.before) # {}
                => Rewritten(t)]_vars

\* the document a, b, c of three lines and the BEFORE text b: offset 2, length 1
C15_Witness ==
    \E t \in TaskIds :
        /\ tasks[t].x.pc = "edit"
        /\ tasks[t].x.text = <<"a", "\n", "b", "\n", "c", "\n">>
        /\ tasks[t].x.action.before = <<"b">>
        /\ tasks[t].x.start = 2
        /\ tasks[t].x.end = 3

\* the lines of the BEFORE text without its leading and trailing blank lines
EffectiveLines(before) ==
    LET lines == SplitLines(before)
        notBlank == {k \in 1..Len(lines) : Trim(lines[k]) # <<>>}
    IN IF notBlank = {} THEN <<>>
       ELSE SubSeq(lines, CHOOSE k \in notBlank : \A h \in notBlank : k <= h,
                          CHOOSE k \in notBlank : \A h \in notBlank : k >= h)

\* the 0-based line indices i at which every trimmed line of the document
\* from i on equals the trimmed effective line at the same distance
Candidates(text, before) ==
    LET docLines == SplitLines(text)
        eff == EffectiveLines(before)
    IN {i \in 0..(Len(docLines) - Len(eff)) :
           \A j \in 1..Len(eff) : Trim(docLines[i + j]) = Trim(eff[j])}

\* the 0-based index of the line that holds the 0-based offset
LineOf(text, offset) == Cardinality({k \in 1..offset : text[k] = "\n"})

\* the exact stage failed for the BEFORE text of handler t at this step
Fuzzy(t) == Looked(t) /\ Occurrences(TextNow(t), tasks[t].x.action.before) = {}

\* C16: when the BEFORE text does not occur verbatim, the match of trimmed
\* lines takes the lowest line index at which all effective lines match,
\* and patch-not-found is reported exactly when there is no such index.
C16_FuzzyLowestLine ==
    [][\A t \in TaskIds :
          LET before == tasks[t].x.action.before
              cand == Candidates(TextNow(t), before)
          IN Fuzzy(t) =>
                /\ MatchResult(t) = "PatchNotFound" <=> cand = {}
                /\ MatchResult(t) = "range" =>
                      /\ LineOf(TextNow(t), tasks'[t].x.start) \in cand
                      /\ \A i \in cand : LineOf(TextNow(t), tasks'[t].x.start) <= i
                /\ cand # {} /\ EffectiveLines(before) # <<>> =>
                      MatchResult(t) = "range"]_vars

\* a handler matched by lines a text of which two lines were candidates
C16_Witness ==
    \E t \in TaskIds :
        /\ tasks[t].x.pc = "edit"
        /\ Occurrences(tasks[t].x.text, tasks[t].x.action.before) = {}
        /\ Cardinality(Candidates(tasks[t].x.text, tasks[t].x.action.before)) >= 2
        /\ LineOf(tasks[t].x.text, tasks[t].x.start) = 0

\* the lines of the document that the lowest candidate covers differ from
\* the effective lines of the BEFORE text, in indentation or in trailing
\* white space
DiffersInWhitespace(text, before) ==
    LET cand == Candidates(text, before)
        eff == EffectiveLines(before)
        first == CHOOSE i \in cand : \A h \in cand : i <= h
    IN /\ eff # <<>>
       /\ cand # {}
       /\ SubSeq(SplitLines(text), first + 1, first + Len(eff)) # eff

\* the range that handler t replaces is the whole of the lines that the
\* lowest candidate covers
WholeLines(t) ==
    LET text == TextNow(t)
        before == tasks[t].x.action.before
        cand == Candidates(text, before)
        first == CHOOSE i \in cand : \A h \in cand : i <= h
        start == tasks'[t].x.start
        end == tasks'[t].x.end
    IN /\ MatchResult(t) = "range"
       /\ start = 0 \/ text[start] = "\n"
       /\ end = Len(text) \/ text[end + 1] \in {"\n", "\r"}
       /\ LineOf(text, start) = first
       /\ SplitLines(SubSeq(text, start + 1, end))
            = SubSeq(SplitLines(text), first + 1, first + Len(EffectiveLines(before)))

\* C17 as stated: every BEFORE text whose trimmed lines match a run of the
\* document's trimmed lines and that differs from them in white space is
\* matched by lines, and the whole lines are replaced.
C17_IndentedMatchReplacesWholeLines ==
    [][\A t \in TaskIds :
          Looked(t) /\ DiffersInWhitespace(TextNow(t), tasks[t].x.action.before)
             => WholeLines(t)]_vars

\* C17 amended: such a BEFORE text that does not occur verbatim in the
\* document is matched by lines: the range runs from column 0 of the first
\* matched line to the end of the last matched line, and the AFTER text
\* takes the place of these lines with their indentation.
C17_FuzzyReplacesWholeLines ==
    /\ [][\A t \in TaskIds :
             Fuzzy(t) /\ DiffersInWhitespace(TextNow(t), tasks[t].x.action.before)
                => WholeLines(t)]_vars
    /\ [][\A t \in TaskIds :
             Edited(t) /\ Occurrences(tasks[t].x.text, tasks[t].x.action.before) = {}
                => Rewritten(t)]_vars

\* the two indented lines a and b of a document matched by the BEFORE text
\* of the lines a and b without indentation: both lines are replaced
C17_Witness ==
    /\ files["f"] = <<"x", "\n">>
    /\ \E k \in 1..Len(rets) :
          /\ rets[k].outcome = "actionComplete"
          /\ rets[k].action.before = <<"a", "\n", "b">>

\* C18: a MODIFY whose BEFORE text is empty after trimming fails with the
\* error of the empty search block, whatever the document holds.
C18_EmptyBeforeAlwaysFails ==
    [][\A t \in TaskIds :
          Looked(t) /\ Trim(tasks[t].x.action.before) = <<>> =>
             MatchResult(t) = "EmptyPatchBlock"]_vars

\* C19: when the BEFORE text neither occurs verbatim nor matches by trimmed
\* lines, the MODIFY fails with patch-not-found, no replace is issued and
\* the document text stays as it was.
C19_NotFoundLeavesDocument ==
    /\ [][\A t \in TaskIds :
             LET before == tasks[t].x.action.before
             IN /\ Fuzzy(t)
                /\ EffectiveLines(before) # <<>>
                /\ Candidates(TextNow(t), before) = {}
                => /\ MatchResult(t) = "PatchNotFound"
                   /\ tasks'[t].x.pc # "edit"
                   /\ files' = files]_vars
    /\ [][(\E k \in 1..Len(rets') : rets'[k].error = "PatchNotFound")
             => files' = files]_vars

\* a MODIFY failed with patch-not-found on a document that has text
C19_Witness ==
    /\ files["f"] # <<>>
    /\ \E k \in 1..Len(rets) :
          /\ rets[k].error = "PatchNotFound"
          /\ rets[k].stillPending

\* a field that the execution of the action reads was not given
Incomplete(action) ==
    \/ action.type \in {"MODIFY", "CREATE", "DELETE"} /\ action.path = NoField
    \/ action.type = "MODIFY" /\ action.before = NoBlock
    \/ action.type = "SHELL" /\ action.command = NoField
    \/ action.type = "FETCH" /\ action.url = NoField

\* C20: the execution of an action that lacks a required field reports a
\* failure, never a completion.
C20_IncompleteActionFails ==
    \A k \in 1..Len(rets) :
        Incomplete(rets[k].action) => rets[k].outcome = "actionError"

\* C21: when no handler is suspended, the last toggleApproveAll value sent
\* to the view says whether some pending action is not a SHELL action.
C21_ToggleTracksNonShell ==
    Suspended2 = {} =>
       (toggleApproveAll = "show" <=> NonShell(pendingActions) # <<>>)

\* the pending actions that were appended after the bulk approval of
\* handler t took its snapshot: those that are not SHELL actions and are not
\* in the snapshot
Later(t) ==
    {k \in 1..Len(pendingActions) :
        /\ pendingActions[k].type # "SHELL"
        /\ pendingActions[k].uid \notin Range(tasks[t].snap)}

\* C22: when a suspended bulk approval runs on, it neither executes nor
\* takes out of the pending store an action that was appended after its
\* snapshot.
C22_SnapshotExcludesLaterActions ==
    [][\A t \in TaskIds :
          tasks[t].kind = "all" /\ tasks'[t] # tasks[t] =>
             \A k \in Later(t) :
                /\ pendingActions[k].uid \in Uids(pendingActions')
                /\ \A j \in 1..Len(rets') : rets'[j].uid # pendingActions[k].uid]_vars

\* the SHELL actions among the pending actions
ShellCount(pending) == Len(pending) - Len(NonShell(pending))

\* the skip messages among the messages c
Skips(c) == {k \in 1..Len(c) : c[k].role = "system"}

\* C23: the number of skipped actions that a bulk approval reports is the
\* number of SHELL actions that were pending when it was invoked, and the
\* skip message is emitted exactly when that number is greater than zero.
C23_SkippedCountIsShellCount ==
    /\ [][\A t \in TaskIds :
             /\ tasks[t].kind = "idle" /\ tasks'[t].kind = "all" =>
                   tasks'[t].skippedCount = ShellCount(pendingActions)
             /\ tasks[t].kind = "all" /\ tasks'[t].kind = "all" =>
                   tasks'[t].skippedCount = tasks[t].skippedCount]_vars
    /\ [][\A k \in 1..Len(bulks') :
             LET n == bulks'[k].skippedCount
             IN /\ Cardinality(Skips(chat')) = IF n > 0 THEN 1 ELSE 0
                /\ \A j \in Skips(chat') : chat'[j].n = n
                /\ \/ \E t \in TaskIds : /\ tasks[t].kind = "all"
                                         /\ tasks'[t].kind = "idle"
                                         /\ tasks[t].skippedCount = n
                   \/ handled' = handled + 1 /\ n = ShellCount(pendingActions)]_vars

\* the bulk approval of the queue MODIFY, SHELL, CREATE executed the two
\* and reported one skipped action
C23_Witness ==
    /\ \E k \in 1..Len(bulks) :
          /\ bulks[k].skippedCount = 1
          /\ Len(bulks[k].attempted) = 2
          /\ bulks[k].attempted = bulks[k].snap
    /\ \E j \in Skips(chat) : chat[j].n = 1
    /\ \E k \in 1..Len(pendingActions) : pendingActions[k].type = "SHELL"

\* C24: no failed action is retried without a new approval: a bulk approval
\* begins at most one execution of any action.
C24_NoRetryWithoutApproval ==
    \A k \in 1..Len(bulks) :
        \A i, j \in 1..Len(bulks[k].attempted) :
            i # j => bulks[k].attempted[i] # bulks[k].attempted[j]

\* C25: without a workspace folder a MODIFY fails with the no-workspace
\* error, no document is opened and no document text changes.
C25_NoWorkspaceModifyFails ==
    /\ [](~workspaceRoot =>
             /\ \A t \in TaskIds : tasks[t].x.pc = "none"
             /\ \A k \in 1..Len(rets) :
                   rets[k].type = "MODIFY" =>
                      rets[k].outcome = "actionError" /\ rets[k].error = "NoWorkspace")
    /\ [][~workspaceRoot => files' = files]_vars

\* a MODIFY was approved without a workspace folder
C25_Witness ==
    /\ ~workspaceRoot
    /\ files["f"] = <<"a">>
    /\ \E k \in 1..Len(rets) :
          rets[k].type = "MODIFY" /\ rets[k].error = "NoWorkspace"

\* a MODIFY action for which the parser captured no BEFORE block
NoBefore(action) == action.type = "MODIFY" /\ action.before = NoBlock

\* the run pastes the MODIFY block without a BEFORE part
NoBeforeRun == \E u \in universe : u.resp = <<ModifyNoBefore>>

\* C26: a MODIFY block without a BEFORE part is queued as an action without
\* a before text; approving it reports an error, no replace is issued and
\* the document stays as it was, whatever it holds.
C26_ModifyWithoutBeforeFails ==
    /\ [](/\ \A k \in 1..Len(rets) :
                NoBefore(rets[k].action) => rets[k].outcome = "actionError"
          /\ \A t \in TaskIds : NoBefore(tasks[t].x.action) => tasks[t].x.pc # "edit")
    /\ [][NoBeforeRun =>
            /\ files' = files
            /\ ParseStep /\ chat'[1].n = 1 =>
                  /\ Len(pendingActions') = Len(pendingActions) + 1
                  /\ NoBefore(pendingActions'[Len(pendingActions')])]_vars

\* the approval of such an action failed on the document that reads
\* undefined
C26_Witness ==
    /\ files["f"] = UndefinedText
    /\ \E k \in 1..Len(rets) :
          /\ NoBefore(rets[k].action)
          /\ rets[k].error = "TypeError"
          /\ rets[k].stillPending

\* C27: a CREATE that completes has written its content to its path, the
\* empty text when no content was captured, whether or not a file was
\* there; after two CREATE actions for one path the file holds the content
\* of the second.
C27_CreateWritesContent ==
    /\ [][\A k \in 1..Len(rets') :
             rets'[k].type = "CREATE" /\ rets'[k].outcome = "actionComplete" =>
                files'[rets'[k].action.path] =
                   IF rets'[k].action.content = NoBlock THEN <<>>
                   ELSE rets'[k].action.content]_vars
    /\ [](\A t \in TaskIds : tasks[t].x.pc = "write" => CanResolve(Machine, tasks[t].x))

\* a bulk approval executed the two CREATE actions for the path of a file
\* that existed, and the file holds the content of the second
C27_Witness ==
    /\ \E u \in universe : u.resp = ChainedCreate
    /\ files["f"] = <<"b">>
    /\ \E k \in 1..Len(bulks) :
          /\ Len(bulks[k].snap) = 2
          /\ bulks[k].attempted = bulks[k].snap
          /\ bulks[k].failedAt = 0

\* C28: an action record is the same from the moment it is appended to the
\* pending store to the moment it is taken out: no step changes a field of
\* a pending action, and the record an execution works on or reports is the
\* record in the store.
C28_ActionNeverChanges ==
    /\ [][\A j \in 1..Len(pendingActions) : \A k \in 1..Len(pendingActions') :
             pendingActions[j].uid = pendingActions'[k].uid =>
                pendingActions[j] = pendingActions'[k]]_vars
    /\ [](\A j \in 1..Len(pendingActions) :
             /\ \A t \in TaskIds :
                   tasks[t].x.action.uid = pendingActions[j].uid =>
                      tasks[t].x.action = pendingActions[j]
             /\ \A k \in 1..Len(rets) :
                   rets[k].uid = pendingActions[j].uid =>
                      rets[k].action = pendingActions[j])

\* an execution of an action failed after awaiting a collaborator call and
\* the action is in the store as it was
C28_Witness ==
    \E k \in 1..Len(rets) : \E j \in 1..Len(pendingActions) :
        /\ rets[k].outcome = "actionError"
        /\ rets[k].error # "NoWorkspace"
        /\ rets[k].action = pendingActions[j]

\* the executions of SHELL actions that the last step reported complete
ShellDone == {k \in Posted("actionComplete") : rets[k].type = "SHELL"}

\* C29: with a workspace folder, the execution of a SHELL action hands the
\* command to the terminal, takes the action out of the pending store and
\* reports it complete in one step; no handler ever waits in the execution
\* of a SHELL action.
C29_ShellFireAndForget ==
    /\ workspaceRoot =>
          \A k \in 1..Len(rets) :
             rets[k].type = "SHELL" =>
                /\ rets[k].outcome = "actionComplete"
                /\ rets[k].removed = rets[k].uid
                /\ ~rets[k].stillPending
                /\ \E i \in 1..Len(terminal) : terminal[i] = rets[k].action.command
    /\ Len(terminal) = Cardinality(ShellDone)
    /\ \A t \in TaskIds : tasks[t].x.action.type # "SHELL"

\* a SHELL action was approved and its command sent
C29_Witness ==
    /\ terminal = <<"c">>
    /\ \E k \in ShellDone : rets[k].by = "one" /\ rets[k].removed = rets[k].uid

\* C30: an execution reports actionComplete exactly when it spliced its
\* action out of the pending store, and actionError exactly when it left the
\* store as it was.
C30_OutcomeMatchesStore ==
    \A k \in 1..Len(rets) :
        /\ rets[k].outcome \in {"actionComplete", "actionError"}
        /\ rets[k].outcome = "actionComplete" <=> rets[k].removed = rets[k].uid
        /\ rets[k].outcome = "actionError" <=> rets[k].removed = 0

\* C31: without a workspace folder the execution of an action of any kind,
\* SHELL and FETCH included, reports the no-workspace error before a
\* collaborator is called: nothing is sent to the terminal, no url is opened,
\* no handler waits on a file call, no file changes, and the action stays in
\* the pending store.
C31_NoWorkspaceEveryKindFails ==
    /\ [](~workspaceRoot =>
             /\ terminal = <<>>
             /\ opened = <<>>
             /\ Suspended2 = {}
             /\ \A k \in 1..Len(rets) :
                   /\ rets[k].outcome = "actionError"
                   /\ rets[k].error = "NoWorkspace"
                   /\ rets[k].removed = 0
                   /\ rets[k].uid \in Uids(pendingActions))
    /\ [][~workspaceRoot /\ rets' # <<>> =>
             files' = files /\ pendingActions' = pendingActions]_vars

\* a SHELL action was approved without a workspace folder: the error is
\* reported, no command reached the terminal and the action is still queued
C31_Witness ==
    /\ ~workspaceRoot
    /\ terminal = <<>>
    /\ \E k \in 1..Len(rets) :
          /\ rets[k].type = "SHELL"
          /\ rets[k].error = "NoWorkspace"
          /\ rets[k].uid \in Uids(pendingActions)

\* C32: approving an id that no pending action has is a no-op: the call is
\* a miss, and the step of an approveAction that misses calls no
\* collaborator, posts no completion, no error and no other message, starts
\* no handler and leaves the pending store, the files and the bulk control
\* as they were.
C32_AbsentIdIsNoOp ==
    /\ [](\A actionId \in 1..nextUid :
             findIndex(pendingActions, actionId) = 0 =>
                ExecBegin(Machine, actionId, "one", {}) =
                   Returned([Machine EXCEPT !.missed = <<actionId>>]))
    /\ [][(/\ handled' = handled + 1
           /\ missed' # <<>>
           /\ bulks' = <<>>
           /\ \A t \in TaskIds : tasks'[t].kind = "all" => tasks[t].kind = "all")
          => /\ \A k \in 1..Len(missed') : findIndex(pendingActions, missed'[k]) = 0
             /\ pendingActions' = pendingActions
             /\ files' = files
             /\ terminal' = <<>>
             /\ opened' = <<>>
             /\ rets' = <<>>
             /\ chat' = <<>>
             /\ toggleApproveAll' = toggleApproveAll
             /\ tasks' = tasks]_vars

\* an id whose action clearChat dropped was approved, and nothing was posted
C32_Witness ==
    /\ rets = <<>>
    /\ bulks = <<>>
    /\ Suspended2 = {}
    /\ \E k \in 1..Len(missed) : missed[k] \in cleared

\* an action whose kind is none of the five tool calls
Unknown(action) == action.type \notin KnownTypes \cup {""}
UnknownUids(pending) == {pending[k].uid : k \in {j \in 1..Len(pending) : Unknown(pending[j])}}

\* the snapshot of every bulk approval invoked in a step holds the pending
\* actions of unknown kind
SnapshotHoldsUnknown ==
    /\ \A t \in TaskIds :
          tasks[t].kind = "idle" /\ tasks'[t].kind = "all" =>
             UnknownUids(pendingActions) \subseteq Range(tasks'[t].snap)
    /\ handled' = handled + 1 =>
          \A k \in 1..Len(bulks') :
             UnknownUids(pendingActions) \subseteq Range(bulks'[k].snap)

\* a step in which only actions of unknown kind were executed reaches no
\* collaborator
UnknownCallsNothing ==
    (rets' # <<>> /\ \A k \in 1..Len(rets') : Unknown(rets'[k].action)) =>
       files' = files /\ terminal' = <<>> /\ opened' = <<>>

\* C33 as stated: a pending action of a kind other than the five is in the
\* snapshot of a bulk approval, and its execution calls no collaborator,
\* takes it out of the store and reports it complete.
C33_UnknownKindCompletes ==
    /\ [](\A k \in 1..Len(rets) :
             Unknown(rets[k].action) =>
                /\ rets[k].outcome = "actionComplete"
                /\ rets[k].removed = rets[k].uid
                /\ ~rets[k].stillPending)
    /\ [](\A t \in Suspended2 : ~Unknown(tasks[t].x.action))
    /\ [][SnapshotHoldsUnknown /\ UnknownCallsNothing]_vars

\* C33 as amended: a pending action of a kind other than the five is in the
\* snapshot of a bulk approval and its execution calls no collaborator; with
\* a workspace folder open the execution takes it out of the store and
\* reports it complete, without one it reports the no-workspace error and
\* the action stays queued.
C33_UnknownKindCompletesInWorkspace ==
    /\ [](\A k \in 1..Len(rets) :
             Unknown(rets[k].action) =>
                IF workspaceRoot
                THEN /\ rets[k].outcome = "actionComplete"
                     /\ rets[k].removed = rets[k].uid
                     /\ ~rets[k].stillPending
                ELSE /\ rets[k].outcome = "actionError"
                     /\ rets[k].error = "NoWorkspace"
                     /\ rets[k].removed = 0
                     /\ rets[k].stillPending)
    /\ [](\A t \in Suspended2 : ~Unknown(tasks[t].x.action))
    /\ [][SnapshotHoldsUnknown /\ UnknownCallsNothing]_vars

\* a bulk approval has executed an action of unknown kind of its snapshot
\* and reported it complete
C33_Witness ==
    /\ workspaceRoot
    /\ \E k \in 1..Len(bulks) : \E j \in 1..Len(rets) :
          /\ Unknown(rets[j].action)
          /\ rets[j].by = "all"
          /\ rets[j].outcome = "actionComplete"
          /\ rets[j].uid \in Range(bulks[k].snap)

\* the step is a clearChat: a request that leaves the one system message
\* of line 71 as the history and returns no bulk approval
ClearStep ==
    /\ handled' = handled + 1
    /\ chat' = <<[role |-> "system", n |-> 0]>>
    /\ bulks' = <<>>

\* the executions begun in a step: those whose outcome the step posts, but
\* for the one a resumed handler was suspended in, and those the step leaves
\* at their first awaited call
Resumed == \E t \in TaskIds : tasks[t].x.pc # "none" /\ tasks'[t] # tasks[t]
BegunAndReturned ==
    {rets'[k].uid : k \in {j \in 1..Len(rets') : ~(j = 1 /\ Resumed)}}
BegunAndSuspended ==
    {tasks'[t].x.action.uid :
        t \in {u \in TaskIds : /\ tasks'[u] # tasks[u]
                               /\ tasks'[u].x.pc \in {"open", "write", "delete"}}}

\* C34: clearChat leaves the pending store empty, an action it dropped is
\* never pending again, and no step after the clear begins an execution of a
\* dropped action: not an approveAction, not an approveAll, not the
\* remaining iterations of a bulk approval that was suspended at the clear.
C34_ClearedNeverExecuted ==
    /\ [][ClearStep => /\ pendingActions' = <<>>
                       /\ cleared' = cleared \cup Uids(pendingActions)]_vars
    /\ [](Uids(pendingActions) \cap cleared = {})
    /\ [][(BegunAndReturned \cup BegunAndSuspended) \cap cleared' = {}]_vars

\* a bulk approval was suspended when the history was cleared; it went on
\* to call executeAction for the rest of its snapshot and found none of them
C34_Witness ==
    \E k \in 1..Len(bulks) :
        /\ bulks[k].calls = Len(bulks[k].actionIds)
        /\ Len(bulks[k].attempted) < Len(bulks[k].snap)
        /\ \E j \in 1..Len(missed) :
              /\ missed[j] \in Range(bulks[k].actionIds)
              /\ missed[j] \in cleared
        /\ pendingActions = <<>>

\* C35: when every awaited collaborator call eventually returns or throws,
\* every bulk approval returns, whatever its executions report, and it makes
\* one executeAction call for each non-SHELL action of its snapshot and no
\* more, so it begins at most that many executions.
C35_BulkApprovalTerminates ==
    /\ \A t \in TaskIds : (tasks[t].kind = "all") ~> (tasks[t].kind # "all")
    /\ [](\A t \in TaskIds :
             tasks[t].kind = "all" =>
                /\ tasks[t].pos <= Len(tasks[t].actionIds)
                /\ Len(tasks[t].actionIds) = Len(tasks[t].snap)
                /\ Len(tasks[t].attempted) <= tasks[t].pos)
    /\ [](\A k \in 1..Len(bulks) :
             /\ bulks[k].calls = Len(bulks[k].snap)
             /\ Len(bulks[k].attempted) <= Len(bulks[k].snap))

\* a bulk approval of two actions has returned after one of its executions
\* completed and the other failed
C35_Witness ==
    \E k \in 1..Len(bulks) :
        /\ Len(bulks[k].snap) = 2
        /\ bulks[k].calls = 2
        /\ \E i, j \in 1..Len(rets) :
              /\ rets[i].by = "all" /\ rets[i].outcome = "actionComplete"
              /\ rets[j].by = "all" /\ rets[j].outcome = "actionError"

====
